---- MODULE Spec2Model ----
(***************************************************************************)
(* The dynamic task queue of yt/utilities/parallel_tools/task_queue.py:    *)
(* one coordinator (rank 0, TaskQueueRoot) hands the tasks of a list to    *)
(* the leaders of njobs worker subgroups (TaskQueueNonRoot) on request,    *)
(* collects their results and tells every subgroup to stop.  The two entry *)
(* points are task_queue (run a callable over all tasks) and               *)
(* dynamic_parallel_objects (a generator of tasks, with or without a       *)
(* storage dictionary).                                                    *)
(*                                                                         *)
(* Point-to-point messages are FIFO per (sender, tag), as MPI guarantees;  *)
(* a broadcast is buffered (its root does not wait for the receivers); a   *)
(* barrier releases its subgroup when every member has entered it.         *)
(* StopIteration raised by get_next ends the iteration of __iter__, as in  *)
(* the Python the module was written for.                                  *)
(***************************************************************************)
EXTENDS Integers, Sequences, FiniteSets, TLC

\* ---------------------------------------------------------------- bounds
MaxProcs == 3
MaxTasks == 3
\* The largest number of processes whose partition alone is looked at.
MaxSplit == 6

\* The modes of use.
Modes == {"task_queue", "dynamic", "dynamic_storage"}

VARIABLES
    mode,         \* which entry point runs, and whether storage is None
    my_size,      \* comm.comm.size
    njobs_arg,    \* the njobs argument
    tasks,        \* the task list (a sequence; task id i is tasks[i+1])
    pc,           \* where each process is
    task,         \* the task a worker process holds
    chan1,        \* messages sent to rank 0 with tag 1, per sender, in order
    chan2,        \* messages sent by rank 0 with tag 2, per destination
    subq,         \* subcomm.bcast values not yet received, per member
    world_bcast,  \* the value rank 0 gave to comm.comm.bcast, if any
    results,      \* TaskQueueRoot.results
    assignments,  \* TaskQueueRoot.assignments
    _notified,    \* TaskQueueRoot._notified
    _current,     \* TaskQueueRoot._current
    _remaining,   \* TaskQueueRoot._remaining
    sent_ids,     \* history: the task ids of the 'next' messages sent
    yielded,      \* history: the tasks dynamic_parallel_objects yielded
    outstanding,  \* history: tasks received minus results sent, per leader
    stack,        \* communicators this process pushed and has not popped
    ret,          \* what task_queue returned on each process
    exc,          \* the exception that ended a process, if any
    obtained,     \* history: the tasks get_next returned on each process
    submits,      \* history: how often each process called send_result
    storage_arg,  \* the storage dictionary as the caller passed it in
    storage       \* the storage dictionary of each process

vars == <<mode, my_size, njobs_arg, tasks, pc, task, chan1, chan2, subq,
          world_bcast, results, assignments, _notified, _current,
          _remaining, sent_ids, yielded, outstanding, stack, ret, exc,
          obtained, submits, storage_arg, storage>>

\* ------------------------------------------------------------- messages
messages == [task     |-> [msg |-> "next"],
             result   |-> [msg |-> "result"],
             task_req |-> [msg |-> "task_req"],
             end      |-> [msg |-> "no_more_tasks"]]

WithValue(m, v) == [msg |-> m.msg, value |-> v]

\* The empty dictionary, and dictionary assignment d[k] = v.
EmptyDict == <<>>
SetItem(d, k, v) == [x \in (DOMAIN d) \cup {k} |-> IF x = k THEN v ELSE d[x]]
\* dict.update: the entries of other replace and extend those of d.
DictUpdate(d, other) ==
    [x \in (DOMAIN d) \cup (DOMAIN other) |->
        IF x \in DOMAIN other THEN other[x] ELSE d[x]]

NoValue == [none |-> TRUE]

\* A storage dictionary that already has an entry when it is passed in.
StaleDict == SetItem(EmptyDict, MaxTasks, 0)

\* The callable applied to every task: a pure function.
work_fn(x) == x * 2

\* ------------------------------------------------------------ partition
Min(a, b) == IF a < b THEN a ELSE b

\* The default taken as my_size, the number of all processes.
NJobs_all == IF njobs_arg <= 0 THEN my_size ELSE njobs_arg

\* njobs after `if njobs <= 0: njobs = my_size - 1`.
NJobs == IF njobs_arg <= 0 THEN my_size - 1 ELSE njobs_arg

ConfigError == NJobs >= my_size

\* A split into sections of the size len / n rounded up, as long as
\* elements are left.
array_split_ceil(size, n, i) ==
    LET len   == size - 1
        each  == (len + n - 1) \div n
        start == Min(i * each, len)
        count == Min(each, len - start)
    IN  [k \in 1..count |-> 1 + start + (k - 1)]

\* na.array_split(na.arange(1, size), n)[i], i = 0..n-1: the first
\* (size-1) % n sections have one element more than the others.
array_split(size, n, i) ==
    LET len   == size - 1
        each  == len \div n
        extra == len % n
        start == i * each + Min(i, extra)
        count == each + (IF i < extra THEN 1 ELSE 0)
    IN  [k \in 1..count |-> 1 + start + (k - 1)]

\* all_new_comms after insert(0, [0]); index 0 is the coordinator's group.
all_new_comms ==
    [i \in 0..NJobs |-> IF i = 0 THEN <<0>> ELSE array_split(my_size, NJobs, i - 1)]

InSeq(x, s) == \E k \in 1..Len(s) : s[k] = x

\* The first group that holds my_rank.
my_new_id(my_rank) ==
    CHOOSE i \in 0..NJobs :
        /\ InSeq(my_rank, all_new_comms[i])
        /\ \A j \in 0..(i - 1) : ~InSeq(my_rank, all_new_comms[j])

\* The members of the subcomm of process p, and p's rank in it.
subcomm(p) == all_new_comms[my_new_id(p)]
subcomm_rank(p) == (CHOOSE k \in 1..Len(subcomm(p)) : subcomm(p)[k] = p) - 1
IsLeader(p) == subcomm_rank(p) = 0
Peers(p) == {subcomm(p)[k] : k \in 2..Len(subcomm(p))}

Procs == 0..(my_size - 1)
Workers == 1..(my_size - 1)

\* ------------------------------------------------------------------ Init
\* Tasks are opaque to the queue and no step depends on their values: the
\* lists tried have pairwise different tasks, so that a task or a result
\* in the wrong place shows.
TaskLists == {[i \in 1..n |-> 10 * i] : n \in 0..MaxTasks}

Init ==
    /\ mode \in Modes
    /\ my_size \in 2..MaxProcs
    /\ njobs_arg \in 0..my_size
    /\ tasks \in TaskLists
    /\ pc = [p \in Procs |-> "start"]
    /\ task = [p \in Procs |-> NoValue]
    /\ chan1 = [p \in Workers |-> <<>>]
    /\ chan2 = [p \in Workers |-> <<>>]
    /\ subq = [p \in Workers |-> <<>>]
    /\ world_bcast = <<>>
    /\ results = EmptyDict
    /\ assignments = EmptyDict
    /\ _notified = 0
    /\ _current = 0
    /\ _remaining = 0
    /\ sent_ids = <<>>
    /\ yielded = [p \in Procs |-> <<>>]
    /\ outstanding = [p \in Procs |-> 0]
    /\ stack = [p \in Procs |-> 0]
    /\ ret = [p \in Procs |-> NoValue]
    /\ exc = [p \in Procs |-> "none"]
    /\ obtained = [p \in Procs |-> <<>>]
    /\ submits = [p \in Procs |-> 0]
    /\ \E d \in (IF mode = "dynamic_storage"
                  THEN {EmptyDict, StaleDict} ELSE {EmptyDict}) :
          /\ storage_arg = d
          /\ storage = [p \in Procs |-> d]

\* ------------------------------------------- entering either function
\* dynamic_parallel_objects is a generator function: the call only makes
\* the generator, and its body starts when the caller first asks for an
\* element.
CallGenerator(p) ==
    /\ mode \in {"dynamic", "dynamic_storage"}
    /\ pc[p] = "start"
    /\ pc' = [pc EXCEPT ![p] = "created"]
    /\ UNCHANGED <<exc, obtained, submits, storage_arg, mode, my_size,
                   njobs_arg, tasks, task, chan1, chan2, subq, world_bcast,
                   results, assignments, _notified, _current, _remaining,
                   sent_ids, yielded, outstanding, stack, ret, storage>>

\* task_queue lines 133-157 and dynamic_parallel_objects lines 161-185, up
\* to the first communication.  task_queue pops the communicator it pushed
\* before it runs the queue; dynamic_parallel_objects keeps it.
Setup(p) ==
    /\ pc[p] = (IF mode = "task_queue" THEN "start" ELSE "created")
    /\ IF ConfigError
       THEN \* `raise RunTimeError`: the name is not defined in the module
            /\ pc' = [pc EXCEPT ![p] = "config_error"]
            /\ exc' = [exc EXCEPT ![p] = "NameError"]
            /\ UNCHANGED <<stack, results, assignments, _notified, _current,
                           _remaining>>
       ELSE /\ UNCHANGED exc
            /\ stack' = [stack EXCEPT ![p] =
                            IF mode = "task_queue" THEN (@ + 1) - 1 ELSE @ + 1]
            /\ IF p = 0
               THEN /\ results' = EmptyDict
                    /\ assignments' = EmptyDict
                    /\ _notified' = 0
                    /\ _current' = 0
                    /\ _remaining' = Len(tasks)
                    /\ pc' = [pc EXCEPT ![p] = "probe_loop"]
               ELSE /\ pc' = [pc EXCEPT ![p] = "get_next"]
                    /\ UNCHANGED <<results, assignments, _notified,
                                   _current, _remaining>>
    /\ UNCHANGED <<obtained, submits, storage_arg, mode, my_size, njobs_arg, tasks, task, chan1, chan2, subq,
                   world_bcast, sent_ids, yielded, outstanding, ret, storage>>

\* ------------------------------------------------------ TaskQueueRoot
\* insert_result that does not store.
insert_result_lost(source_id, result) == results

\* insert_result that stores under the id of the task assigned last.
insert_result_latest(source_id, result) ==
    SetItem(results, _current - 1, result)

\* insert_result: the results after the result of source_id is stored.
insert_result(source_id, result) ==
    SetItem(results, assignments[source_id], result)

\* assign_task without `self._current += 1`.
assign_task_same(source_id) ==
    IF _remaining = 0
    THEN [msg         |-> messages.end,
          notified    |-> _notified + 1,
          current     |-> _current,
          remaining   |-> _remaining,
          assignments |-> assignments,
          sent        |-> sent_ids]
    ELSE [msg         |-> WithValue(messages.task, tasks[_current + 1]),
          notified    |-> _notified,
          current     |-> _current,
          remaining   |-> _remaining - 1,
          assignments |-> SetItem(assignments, source_id, _current),
          sent        |-> Append(sent_ids, _current)]

\* assign_task without `self._notified += 1`.
assign_task_uncounted(source_id) ==
    IF _remaining = 0
    THEN [msg         |-> messages.end,
          notified    |-> _notified,
          current     |-> _current,
          remaining   |-> _remaining,
          assignments |-> assignments,
          sent        |-> sent_ids]
    ELSE [msg         |-> WithValue(messages.task, tasks[_current + 1]),
          notified    |-> _notified,
          current     |-> _current + 1,
          remaining   |-> _remaining - 1,
          assignments |-> SetItem(assignments, source_id, _current),
          sent        |-> Append(sent_ids, _current)]

\* assign_task that hands out the last task not yet assigned.
assign_task_last(source_id) ==
    IF _remaining = 0
    THEN [msg         |-> messages.end,
          notified    |-> _notified + 1,
          current     |-> _current,
          remaining   |-> _remaining,
          assignments |-> assignments,
          sent        |-> sent_ids]
    ELSE [msg         |-> WithValue(messages.task, tasks[_remaining]),
          notified    |-> _notified,
          current     |-> _current + 1,
          remaining   |-> _remaining - 1,
          assignments |-> SetItem(assignments, source_id, _remaining - 1),
          sent        |-> Append(sent_ids, _remaining - 1)]

\* assign_task that takes messages['task'] for messages['end'] when no
\* task is left.
assign_task_noend(source_id) ==
    IF _remaining = 0
    THEN [msg         |-> WithValue(messages.task, NoValue),
          notified    |-> _notified + 1,
          current     |-> _current,
          remaining   |-> _remaining,
          assignments |-> assignments,
          sent        |-> sent_ids]
    ELSE [msg         |-> WithValue(messages.task, tasks[_current + 1]),
          notified    |-> _notified,
          current     |-> _current + 1,
          remaining   |-> _remaining - 1,
          assignments |-> SetItem(assignments, source_id, _current),
          sent        |-> Append(sent_ids, _current)]

\* assign_task: the message sent to source_id and the fields afterwards.
assign_task(source_id) ==
    IF _remaining = 0
    THEN [msg         |-> messages.end,
          notified    |-> _notified + 1,
          current     |-> _current,
          remaining   |-> _remaining,
          assignments |-> assignments,
          sent        |-> sent_ids]
    ELSE [msg         |-> WithValue(messages.task, tasks[_current + 1]),
          notified    |-> _notified,
          current     |-> _current + 1,
          remaining   |-> _remaining - 1,
          assignments |-> SetItem(assignments, source_id, _current),
          sent        |-> Append(sent_ids, _current)]

\* The test of line 129 with 1 for self.njobs.
LoopEnds_first(notified) == notified >= 1

\* The test that ends probe_loop, made after every message handled.
LoopEnds(notified) == notified >= NJobs

\* handle_assignment that takes every message that is no result for a
\* request.
HandleAssignment_lenient(source) ==
    /\ pc[0] = "probe_loop"
    /\ chan1[source] # <<>>
    /\ chan1' = [chan1 EXCEPT ![source] = Tail(@)]
    /\ LET msg == Head(chan1[source]) IN
       IF msg.msg = messages.result.msg
       THEN IF source \in DOMAIN assignments
            THEN /\ results' = insert_result(source, msg.value)
                 /\ pc' = [pc EXCEPT ![0] =
                        IF LoopEnds(_notified) THEN "stopped" ELSE "probe_loop"]
                 /\ UNCHANGED <<assignments, _notified, _current, _remaining,
                                sent_ids, chan2, exc>>
            ELSE \* KeyError
                 /\ pc' = [pc EXCEPT ![0] = "error"]
                 /\ exc' = [exc EXCEPT ![0] = "KeyError"]
                 /\ UNCHANGED <<results, assignments, _notified, _current,
                                _remaining, sent_ids, chan2>>
       ELSE IF TRUE
       THEN LET a == assign_task(source) IN
            /\ _notified' = a.notified
            /\ _current' = a.current
            /\ _remaining' = a.remaining
            /\ assignments' = a.assignments
            /\ sent_ids' = a.sent
            /\ chan2' = [chan2 EXCEPT ![source] = Append(@, a.msg)]
            /\ pc' = [pc EXCEPT ![0] =
                        IF LoopEnds(a.notified) THEN "stopped" ELSE "probe_loop"]
            /\ UNCHANGED <<results, exc>>
       ELSE \* RuntimeError
            /\ pc' = [pc EXCEPT ![0] = "error"]
            /\ exc' = [exc EXCEPT ![0] = "RuntimeError"]
            /\ UNCHANGED <<results, assignments, _notified, _current,
                           _remaining, sent_ids, chan2>>
    /\ UNCHANGED <<obtained, submits, storage_arg, mode, my_size, njobs_arg, tasks, task, subq, world_bcast,
                   yielded, outstanding, stack, ret, storage>>

\* handle_assignment, called by probe_loop for a message of any source.
HandleAssignment(source) ==
    /\ pc[0] = "probe_loop"
    /\ chan1[source] # <<>>
    /\ chan1' = [chan1 EXCEPT ![source] = Tail(@)]
    /\ LET msg == Head(chan1[source]) IN
       IF msg.msg = messages.result.msg
       THEN IF source \in DOMAIN assignments
            THEN /\ results' = insert_result(source, msg.value)
                 /\ pc' = [pc EXCEPT ![0] =
                        IF LoopEnds(_notified) THEN "stopped" ELSE "probe_loop"]
                 /\ UNCHANGED <<assignments, _notified, _current, _remaining,
                                sent_ids, chan2, exc>>
            ELSE \* KeyError
                 /\ pc' = [pc EXCEPT ![0] = "error"]
                 /\ exc' = [exc EXCEPT ![0] = "KeyError"]
                 /\ UNCHANGED <<results, assignments, _notified, _current,
                                _remaining, sent_ids, chan2>>
       ELSE IF msg.msg = messages.task_req.msg
       THEN LET a == assign_task(source) IN
            /\ _notified' = a.notified
            /\ _current' = a.current
            /\ _remaining' = a.remaining
            /\ assignments' = a.assignments
            /\ sent_ids' = a.sent
            /\ chan2' = [chan2 EXCEPT ![source] = Append(@, a.msg)]
            /\ pc' = [pc EXCEPT ![0] =
                        IF LoopEnds(a.notified) THEN "stopped" ELSE "probe_loop"]
            /\ UNCHANGED <<results, exc>>
       ELSE \* RuntimeError
            /\ pc' = [pc EXCEPT ![0] = "error"]
            /\ exc' = [exc EXCEPT ![0] = "RuntimeError"]
            /\ UNCHANGED <<results, assignments, _notified, _current,
                           _remaining, sent_ids, chan2>>
    /\ UNCHANGED <<obtained, submits, storage_arg, mode, my_size, njobs_arg, tasks, task, subq, world_bcast,
                   yielded, outstanding, stack, ret, storage>>

\* What rank 0 does once probe_loop has returned.
RootFinish ==
    /\ pc[0] = "stopped"
    /\ pc' = [pc EXCEPT ![0] = "done"]
    /\ IF mode = "task_queue"
       THEN \* TaskQueueRoot.run: return self.finalize(self.results)
            /\ world_bcast' = <<results>>
            /\ ret' = [ret EXCEPT ![0] = results]
            /\ UNCHANGED <<storage, stack>>
       ELSE IF mode = "dynamic_storage"
       THEN \* lines 195-199
            /\ world_bcast' = <<results>>
            /\ storage' = [storage EXCEPT ![0] = DictUpdate(@, results)]
            /\ stack' = [stack EXCEPT ![0] = @ - 1]
            /\ UNCHANGED ret
       ELSE \* line 199
            /\ stack' = [stack EXCEPT ![0] = @ - 1]
            /\ UNCHANGED <<world_bcast, storage, ret>>
    /\ UNCHANGED <<exc, obtained, submits, storage_arg, mode, my_size, njobs_arg, tasks, task, chan1, chan2, subq,
                   results, assignments, _notified, _current, _remaining,
                   sent_ids, yielded, outstanding>>

\* --------------------------------------------------- TaskQueueNonRoot
\* Where a process goes when get_next raises StopIteration: task_queue
\* calls finalize, dynamic_parallel_objects with storage waits for the
\* broadcast of line 196, and without storage it pops and is finished.
AfterIteration == IF mode = "dynamic" THEN "done" ELSE "finalize"

\* send_result without the barrier of line 57.
AfterSendResult_nobarrier(p) == "get_next"

\* send_result as far as the process itself goes: the barrier of a
\* subcomm with one member returns at once.
AfterSendResult(p) == IF Len(subcomm(p)) = 1 THEN "get_next" ELSE "barrier"

\* get_next, first half, on the leader: send the request (line 62).
SendTaskReq(p) ==
    /\ pc[p] = "get_next"
    /\ IsLeader(p)
    /\ chan1' = [chan1 EXCEPT ![p] = Append(@, messages.task_req)]
    /\ pc' = [pc EXCEPT ![p] = "recv"]
    /\ UNCHANGED <<exc, obtained, submits, storage_arg, mode, my_size, njobs_arg, tasks, task, chan2, subq,
                   world_bcast, results, assignments, _notified, _current,
                   _remaining, sent_ids, yielded, outstanding, stack, ret,
                   storage>>

\* The rest of get_next once msg is known (lines 65-68), then the pop of
\* line 199 when the generator without storage runs to its end.
GotMessage(p, msg) ==
    IF msg.msg = messages.end.msg
    THEN /\ pc' = [pc EXCEPT ![p] = AfterIteration]
         /\ stack' = [stack EXCEPT ![p] = IF mode = "dynamic" THEN @ - 1 ELSE @]
         /\ UNCHANGED <<task, outstanding, obtained>>
    ELSE /\ pc' = [pc EXCEPT ![p] = "has_task"]
         /\ task' = [task EXCEPT ![p] = msg.value]
         /\ obtained' = [obtained EXCEPT ![p] = Append(@, msg.value)]
         /\ outstanding' = [outstanding EXCEPT ![p] =
                               IF IsLeader(p) THEN @ + 1 ELSE @]
         /\ UNCHANGED stack

\* get_next, second half, on the leader: receive the answer (line 63) and
\* broadcast it to the subcomm (line 64).
RecvReply(p) ==
    /\ pc[p] = "recv"
    /\ chan2[p] # <<>>
    /\ LET msg == Head(chan2[p]) IN
        /\ chan2' = [chan2 EXCEPT ![p] = Tail(@)]
        /\ subq' = [q \in Workers |->
                      IF q \in Peers(p) THEN Append(subq[q], msg) ELSE subq[q]]
        /\ GotMessage(p, msg)
    /\ UNCHANGED <<exc, submits, storage_arg, mode, my_size, njobs_arg, tasks, chan1, world_bcast,
                   results, assignments, _notified, _current, _remaining,
                   sent_ids, yielded, ret, storage>>

\* get_next on the other members: receive the broadcast (line 64).
RecvBcast(p) ==
    /\ pc[p] = "get_next"
    /\ ~IsLeader(p)
    /\ subq[p] # <<>>
    /\ subq' = [subq EXCEPT ![p] = Tail(@)]
    /\ GotMessage(p, Head(subq[p]))
    /\ UNCHANGED <<exc, submits, storage_arg, mode, my_size, njobs_arg, tasks, chan1, chan2,
                   world_bcast, results, assignments, _notified, _current,
                   _remaining, sent_ids, yielded, ret, storage>>

\* send_result, lines 53-56: only the leader sends.
send_result(p, result) ==
    IF IsLeader(p)
    THEN Append(chan1[p], WithValue(messages.result, result))
    ELSE chan1[p]

\* TaskQueueNonRoot.run, line 76: self.send_result(callable(task)).
RunCallable(p) ==
    /\ mode = "task_queue"
    /\ pc[p] = "has_task"
    /\ chan1' = [chan1 EXCEPT ![p] = send_result(p, work_fn(task[p]))]
    /\ outstanding' = [outstanding EXCEPT ![p] =
                          IF IsLeader(p) THEN @ - 1 ELSE @]
    /\ submits' = [submits EXCEPT ![p] = @ + 1]
    /\ pc' = [pc EXCEPT ![p] = AfterSendResult(p)]
    /\ UNCHANGED <<exc, obtained, storage_arg, mode, my_size, njobs_arg, tasks, task, chan2, subq,
                   world_bcast, results, assignments, _notified, _current,
                   _remaining, sent_ids, yielded, stack, ret, storage>>

\* dynamic_parallel_objects without storage, lines 187-188: the task is
\* yielded and the caller asks for the next one.
YieldTask(p) ==
    /\ mode = "dynamic"
    /\ pc[p] = "has_task"
    /\ yielded' = [yielded EXCEPT ![p] = Append(@, task[p])]
    /\ pc' = [pc EXCEPT ![p] = "get_next"]
    /\ UNCHANGED <<exc, obtained, submits, storage_arg, mode, my_size, njobs_arg, tasks, task, chan1, chan2, subq,
                   world_bcast, results, assignments, _notified, _current,
                   _remaining, sent_ids, outstanding, stack, ret, storage>>

\* Lines 190-193 without the send_result of line 193.
YieldSlot_unsent(p) ==
    /\ mode = "dynamic_storage"
    /\ pc[p] = "has_task"
    /\ yielded' = [yielded EXCEPT ![p] = Append(@, task[p])]
    /\ pc' = [pc EXCEPT ![p] = "get_next"]
    /\ UNCHANGED <<exc, obtained, submits, storage_arg, mode, my_size, njobs_arg, tasks, task, chan1,
                   chan2, subq, world_bcast, results, assignments, _notified,
                   _current, _remaining, sent_ids, outstanding, stack, ret,
                   storage>>

\* dynamic_parallel_objects with storage, lines 190-193: the task is
\* yielded with a ResultsStorage, the caller stores the result of its work
\* in it and asks for the next one, and the result is sent.
YieldSlot(p) ==
    /\ mode = "dynamic_storage"
    /\ pc[p] = "has_task"
    /\ yielded' = [yielded EXCEPT ![p] = Append(@, task[p])]
    /\ chan1' = [chan1 EXCEPT ![p] = send_result(p, work_fn(task[p]))]
    /\ outstanding' = [outstanding EXCEPT ![p] =
                          IF IsLeader(p) THEN @ - 1 ELSE @]
    /\ submits' = [submits EXCEPT ![p] = @ + 1]
    /\ pc' = [pc EXCEPT ![p] = AfterSendResult(p)]
    /\ UNCHANGED <<exc, obtained, storage_arg, mode, my_size, njobs_arg, tasks, task, chan2, subq,
                   world_bcast, results, assignments, _notified, _current,
                   _remaining, sent_ids, stack, ret, storage>>

\* The caller of dynamic_parallel_objects leaves its loop at a task: the
\* generator stays suspended at its yield (line 188 or 192) for good.
Abandon(p) ==
    /\ mode \in {"dynamic", "dynamic_storage"}
    /\ pc[p] = "has_task"
    /\ yielded' = [yielded EXCEPT ![p] = Append(@, task[p])]
    /\ pc' = [pc EXCEPT ![p] = "abandoned"]
    /\ UNCHANGED <<exc, obtained, submits, storage_arg, mode, my_size, njobs_arg, tasks, task, chan1, chan2, subq,
                   world_bcast, results, assignments, _notified, _current,
                   _remaining, sent_ids, outstanding, stack, ret, storage>>

\* subcomm.barrier() of line 57 returns on every member of the subcomm of
\* leader p once all of them have entered it.
Barrier(p) ==
    /\ IsLeader(p)
    /\ \A k \in 1..Len(subcomm(p)) : pc[subcomm(p)[k]] = "barrier"
    /\ pc' = [q \in Procs |->
                IF InSeq(q, subcomm(p)) THEN "get_next" ELSE pc[q]]
    /\ UNCHANGED <<exc, obtained, submits, storage_arg, mode, my_size, njobs_arg, tasks, task, chan1, chan2, subq,
                   world_bcast, results, assignments, _notified, _current,
                   _remaining, sent_ids, yielded, outstanding, stack, ret,
                   storage>>

\* The end of a worker that keeps its own my_q.results (empty) and not
\* the value the broadcast returns.
WorkerFinish_own(p) ==
    /\ pc[p] = "finalize"
    /\ world_bcast # <<>>
    /\ pc' = [pc EXCEPT ![p] = "done"]
    /\ IF mode = "task_queue"
       THEN /\ ret' = [ret EXCEPT ![p] = EmptyDict]
            /\ UNCHANGED <<storage, stack>>
       ELSE /\ storage' = [storage EXCEPT ![p] = DictUpdate(@, EmptyDict)]
            /\ stack' = [stack EXCEPT ![p] = @ - 1]
            /\ UNCHANGED ret
    /\ UNCHANGED <<exc, obtained, submits, storage_arg, mode, my_size, njobs_arg, tasks, task, chan1,
                   chan2, subq, world_bcast, results, assignments, _notified,
                   _current, _remaining, sent_ids, yielded, outstanding>>

\* finalize (line 80) in task_queue, lines 196-199 with storage: the
\* broadcast of rank 0 arrives.
WorkerFinish(p) ==
    /\ pc[p] = "finalize"
    /\ world_bcast # <<>>
    /\ pc' = [pc EXCEPT ![p] = "done"]
    /\ IF mode = "task_queue"
       THEN /\ ret' = [ret EXCEPT ![p] = world_bcast[1]]
            /\ UNCHANGED <<storage, stack>>
       ELSE /\ storage' = [storage EXCEPT ![p] = DictUpdate(@, world_bcast[1])]
            /\ stack' = [stack EXCEPT ![p] = @ - 1]
            /\ UNCHANGED ret
    /\ UNCHANGED <<exc, obtained, submits, storage_arg, mode, my_size, njobs_arg, tasks, task, chan1, chan2, subq,
                   world_bcast, results, assignments, _notified, _current,
                   _remaining, sent_ids, yielded, outstanding>>

\* ------------------------------------------------------ specification
Next ==
    \/ \E p \in Procs : CallGenerator(p)
    \/ \E p \in Procs : Setup(p)
    \/ \E source \in Workers : HandleAssignment(source)
    \/ RootFinish
    \/ \E p \in Workers : SendTaskReq(p)
    \/ \E p \in Workers : RecvReply(p)
    \/ \E p \in Workers : RecvBcast(p)
    \/ \E p \in Workers : RunCallable(p)
    \/ \E p \in Workers : YieldTask(p)
    \/ \E p \in Workers : YieldSlot(p)
    \/ \E p \in Workers : Abandon(p)
    \/ \E p \in Workers : Barrier(p)
    \/ \E p \in Workers : WorkerFinish(p)

Spec == Init /\ [][Next]_vars

\* The processes of a communicator of up to MaxSplit processes enter
\* either function with an empty task list and go no further: only the
\* partition is at work.
SplitInit ==
    /\ mode \in Modes
    /\ my_size \in 2..MaxSplit
    /\ njobs_arg \in 0..my_size
    /\ tasks = <<>>
    /\ pc = [p \in Procs |-> "start"]
    /\ task = [p \in Procs |-> NoValue]
    /\ chan1 = [p \in Workers |-> <<>>]
    /\ chan2 = [p \in Workers |-> <<>>]
    /\ subq = [p \in Workers |-> <<>>]
    /\ world_bcast = <<>>
    /\ results = EmptyDict
    /\ assignments = EmptyDict
    /\ _notified = 0
    /\ _current = 0
    /\ _remaining = 0
    /\ sent_ids = <<>>
    /\ yielded = [p \in Procs |-> <<>>]
    /\ outstanding = [p \in Procs |-> 0]
    /\ stack = [p \in Procs |-> 0]
    /\ ret = [p \in Procs |-> NoValue]
    /\ exc = [p \in Procs |-> "none"]
    /\ obtained = [p \in Procs |-> <<>>]
    /\ submits = [p \in Procs |-> 0]
    /\ storage_arg = EmptyDict
    /\ storage = [p \in Procs |-> EmptyDict]

SplitNext ==
    \/ \E p \in Procs : CallGenerator(p)
    \/ \E p \in Procs : Setup(p)

SplitSpec == SplitInit /\ [][SplitNext]_vars

\* The same run told with the other of the two spellings of its job
\* count, njobs = 0 and njobs = my_size - 1; nothing else differs.
Respell ==
    /\ njobs_arg \in {0, my_size - 1}
    /\ njobs_arg' = (IF njobs_arg = 0 THEN my_size - 1 ELSE 0)
    /\ UNCHANGED <<exc, obtained, submits, storage_arg, mode, my_size, tasks,
                   pc, task, chan1, chan2, subq, world_bcast, results,
                   assignments, _notified, _current, _remaining, sent_ids,
                   yielded, outstanding, stack, ret, storage>>

RespellNext ==
    \/ Next
    \/ Respell

\* Runs in which njobs = 0 and njobs = my_size - 1 are taken for each
\* other at any moment.
RespellSpec == Init /\ [][RespellNext]_vars

\* Other code of process p sends a message of a kind the queue does not
\* know to rank 0 with tag 1; one such message per run.
Stray(p) ==
    /\ pc[0] # "error"
    /\ \A q \in Workers : \A k \in 1..Len(chan1[q]) : chan1[q][k].msg # "other"
    /\ chan1' = [chan1 EXCEPT ![p] = Append(@, [msg |-> "other"])]
    /\ UNCHANGED <<exc, obtained, submits, storage_arg, mode, my_size,
                   njobs_arg, tasks, pc, task, chan2, subq, world_bcast,
                   results, assignments, _notified, _current, _remaining,
                   sent_ids, yielded, outstanding, stack, ret, storage>>

StrayNext ==
    \/ Next
    \/ \E p \in Workers : Stray(p)

\* The queue with a message of an unknown kind on its channel.
StraySpec == Init /\ [][StrayNext]_vars

\* Every process is alive and every message sent is delivered: a step that
\* can be taken is taken in the end.
LiveSpec == Init /\ [][Next]_vars /\ WF_vars(Next)

TypeOK ==
    /\ _notified \in 0..MaxProcs
    /\ \A p \in Procs : stack[p] \in 0..1

\* ------------------------------------------------------------ claims
L == Len(tasks)
TaskIds == 0..(L - 1)
Leaders == {p \in Workers : IsLeader(p)}
NumSubgroups == Cardinality({my_new_id(p) : p \in Workers})
LoopStopped == pc[0] \in {"stopped", "done"}
AllDone == \A p \in Procs : pc[p] = "done"
SentIdSet == {sent_ids[k] : k \in 1..Len(sent_ids)}

\* C1: the task ids of the task-delivery messages sent are ids of the
\* list, no id is sent twice, and once the coordinator's loop has stopped
\* every id of 0..L-1 has been sent.
C1_EachIdSentOnce ==
    /\ \A j, k \in 1..Len(sent_ids) : j # k => sent_ids[j] # sent_ids[k]
    /\ SentIdSet \subseteq TaskIds
    /\ LoopStopped => SentIdSet = TaskIds /\ Len(sent_ids) = L

\* Two subgroups have shared the ids of a full list and the loop stopped.
C1_Witness ==
    /\ pc[0] = "stopped"
    /\ Len(sent_ids) = MaxTasks
    /\ Cardinality(DOMAIN assignments) = 2

\* C2: when task_queue has completed on the coordinator, the mapping it
\* broadcast has exactly L entries, one under every task id of 0..L-1.
C2_ResultKeys ==
    (mode = "task_queue" /\ pc[0] = "done") =>
        /\ world_bcast # <<>>
        /\ DOMAIN world_bcast[1] = TaskIds
        /\ Cardinality(DOMAIN world_bcast[1]) = L

C2_Witness ==
    /\ mode = "task_queue"
    /\ pc[0] = "done"
    /\ L = MaxTasks
    /\ NJobs = 1
    /\ my_size = 3
    /\ DOMAIN world_bcast[1] = 0..(MaxTasks - 1)

\* C3: in a completed run of task_queue, the result under task id i is
\* work_fn of task i, on the coordinator and in what each process returns.
C3_ResultValues ==
    \A p \in Procs :
        (mode = "task_queue" /\ pc[p] = "done") =>
            \A i \in TaskIds :
                /\ i \in DOMAIN ret[p]
                /\ ret[p][i] = work_fn(tasks[i + 1])

\* Two subgroups have run tasks of a full list and every process returned.
C3_Witness ==
    /\ mode = "task_queue"
    /\ AllDone
    /\ L = MaxTasks
    /\ Cardinality(DOMAIN assignments) = 2
    /\ assignments[1] < assignments[2]

\* C4: the coordinator's loop has stopped exactly when _notified equals
\* the number of worker subgroups.
C4_LoopStopsExactly ==
    ~ConfigError => (LoopStopped <=> _notified = NumSubgroups)

C4_Witness ==
    /\ pc[0] = "stopped"
    /\ NumSubgroups = 2
    /\ _notified = 2

\* The task-delivery messages on their way to leader p.
TasksInFlight(p) ==
    Cardinality({k \in 1..Len(chan2[p]) : chan2[p][k].msg = messages.task.msg})

\* C5 as claimed: in every mode of use a leader has at most one task whose
\* result it has not submitted, counting a task on its way to it.
C5_AlternatesInEveryMode ==
    \A p \in Workers : outstanding[p] + TasksInFlight(p) <= 1

\* C5, amended: in task_queue and in dynamic_parallel_objects with storage
\* a leader has at most one task whose result it has not submitted,
\* counting a task on its way to it.
C5_AlternatesWhenSubmitting ==
    mode # "dynamic" =>
        \A p \in Workers : outstanding[p] + TasksInFlight(p) <= 1

\* A leader holds its last task of a full list, having submitted the
\* results of all the others.
C5_Witness ==
    /\ mode = "dynamic_storage"
    /\ NJobs = 1
    /\ L = MaxTasks
    /\ _remaining = 0
    /\ Cardinality(DOMAIN results) = MaxTasks - 1
    /\ outstanding[1] = 1

RECURSIVE SumLen(_, _)
SumLen(f, S) ==
    IF S = {} THEN 0
    ELSE LET p == CHOOSE q \in S : TRUE IN Len(f[p]) + SumLen(f, S \ {p})

Leader(p) == subcomm(p)[1]

\* C6 as claimed: without storage, when every process has finished, the
\* worker processes together yielded L elements, every task once.
C6_YieldedOnceOverall ==
    (mode = "dynamic" /\ AllDone) =>
        /\ SumLen(yielded, Workers) = L
        /\ \A i \in 1..L :
              SumLen([p \in Workers |-> SelectSeq(yielded[p],
                        LAMBDA v : v = tasks[i])], Workers) = 1

\* C6, amended: without storage, when every process has finished, the
\* leaders of the subgroups together yielded L elements, every task once,
\* and every member of a subgroup yielded what its leader yielded.
C6_YieldedOncePerSubgroup ==
    (mode = "dynamic" /\ AllDone) =>
        /\ SumLen(yielded, Leaders) = L
        /\ \A i \in 1..L :
              SumLen([p \in Workers |-> SelectSeq(yielded[p],
                        LAMBDA v : v = tasks[i])], Leaders) = 1
        /\ \A p \in Workers : yielded[p] = yielded[Leader(p)]

C6_Witness ==
    /\ mode = "dynamic"
    /\ AllDone
    /\ L = MaxTasks
    /\ NJobs = 1
    /\ my_size = 3
    /\ Len(yielded[2]) = MaxTasks

\* C7 as claimed: with storage, when every process has finished, the
\* storage of every process is the same mapping of exactly L entries, one
\* per task id.
C7_StorageIsResultMapping ==
    (mode = "dynamic_storage" /\ AllDone) =>
        \A p \in Procs :
            /\ storage[p] = storage[0]
            /\ DOMAIN storage[p] = TaskIds

\* C7, amended: with storage, when every process has finished, the storage
\* of every process is what was passed in, updated with the coordinator's
\* Result Mapping, which has one entry per task id; a storage passed in
\* empty is that mapping.
C7_StorageUpdated ==
    (mode = "dynamic_storage" /\ AllDone) =>
        \A p \in Procs :
            /\ DOMAIN results = TaskIds
            /\ storage[p] = DictUpdate(storage_arg, results)
            /\ \A i \in TaskIds : storage[p][i] = work_fn(tasks[i + 1])
            /\ storage_arg = EmptyDict => storage[p] = results

C7_Witness ==
    /\ mode = "dynamic_storage"
    /\ AllDone
    /\ L = MaxTasks
    /\ my_size = MaxProcs
    /\ storage_arg = EmptyDict
    /\ DOMAIN storage[MaxProcs - 1] = 0..(MaxTasks - 1)

\* C8: what task_queue returns on a process is the coordinator's final
\* Result Mapping.
C8_SameReturnEverywhere ==
    \A p \in Procs :
        (mode = "task_queue" /\ pc[p] = "done") =>
            /\ pc[0] = "done"
            /\ ret[p] = results
            /\ ret[p] = ret[0]

C8_Witness ==
    /\ mode = "task_queue"
    /\ AllDone
    /\ my_size = MaxProcs
    /\ L = MaxTasks
    /\ ret[MaxProcs - 1] = results
    /\ DOMAIN results = 0..(MaxTasks - 1)

Running(p) ==
    pc[p] \in {"probe_loop", "get_next", "recv", "has_task", "barrier"}
Terminal(p) == pc[p] \in {"done", "abandoned", "error"}

\* C9: the communicator pushed for the run is in place on a process while
\* the run goes on there, and popped when the process has ended, however
\* it ended.
C9_PoppedOnlyAfterRun ==
    \A p \in Procs :
        /\ Running(p) => stack[p] = 1
        /\ Terminal(p) => stack[p] = 0

\* C10: with every process alive, every message delivered and a caller
\* that takes every task, a run ends: every process has finished, the
\* coordinator's loop has stopped and every subgroup was told to end.
C10_RunTerminates ==
    <>(\/ ConfigError
       \/ \E p \in Workers : pc[p] = "abandoned"
       \/ AllDone /\ _notified = NumSubgroups)

C10_Witness ==
    /\ AllDone
    /\ L = MaxTasks
    /\ NumSubgroups = 2
    /\ _notified = 2
    /\ \A p \in Workers : chan1[p] = <<>> /\ chan2[p] = <<>>

\* C11: the k-th task-delivery sent carries task id k-1, whichever
\* subgroups asked: the ids sent are 0, 1, 2, ... in this order, and the
\* id a requester gets is the number of deliveries made before.
C11_HandedOutInOrder ==
    /\ \A k \in 1..Len(sent_ids) : sent_ids[k] = k - 1
    /\ Len(sent_ids) = _current
    /\ \A p \in Workers : \A k \in 1..Len(chan2[p]) :
          chan2[p][k].msg = messages.task.msg =>
              \E i \in 1..Len(sent_ids) : chan2[p][k].value = tasks[sent_ids[i] + 1]

\* The second subgroup asked first and holds task 0; the first holds a
\* later task of a full list.
C11_Witness ==
    /\ Len(sent_ids) = MaxTasks
    /\ Cardinality(DOMAIN assignments) = 2
    /\ assignments[2] < assignments[1]

NoMessages ==
    /\ \A p \in Workers : chan1[p] = <<>> /\ chan2[p] = <<>> /\ subq[p] = <<>>
    /\ world_bcast = <<>>

NoQueueState ==
    /\ results = EmptyDict
    /\ assignments = EmptyDict
    /\ _notified = 0 /\ _current = 0 /\ _remaining = 0
    /\ sent_ids = <<>>

\* C12: with njobs >= the number of processes, a process that has called
\* either function has failed, without a group pushed, a message sent or
\* queue state made.
C12_FailsAtCallTime ==
    ConfigError =>
        /\ \A p \in Procs :
              pc[p] # "start" => pc[p] = "config_error" /\ stack[p] = 0
        /\ NoMessages
        /\ NoQueueState

RootFields == <<results, assignments, _notified, _current, _remaining>>

\* The message rank 0 takes in this step, if it takes one of source.
Handles(source) ==
    /\ pc[0] = "probe_loop"
    /\ chan1[source] # <<>>
    /\ chan1'[source] = Tail(chan1[source])

UnknownKind(m) ==
    m.msg \notin {messages.result.msg, messages.task_req.msg}

\* C13: when handle_assignment takes a message that is neither a result
\* nor a request, the coordinator ends with RuntimeError and nothing else
\* changes: no task assigned, no result stored, no counter changed, no
\* reply sent; and afterwards nothing is broadcast.
C13_UnknownMessageAborts ==
    /\ [](pc[0] = "error" =>
            /\ exc[0] = "RuntimeError"
            /\ world_bcast = <<>>
            /\ ret[0] = NoValue)
    /\ [][\A source \in Workers :
            (Handles(source) /\ UnknownKind(Head(chan1[source]))) =>
                /\ pc'[0] = "error"
                /\ UNCHANGED RootFields
                /\ UNCHANGED <<chan2, sent_ids, world_bcast, storage, ret>>]_vars
    /\ [][pc[0] = "error" =>
            /\ pc'[0] = "error"
            /\ UNCHANGED RootFields
            /\ UNCHANGED <<sent_ids, world_bcast>>
            /\ \A p \in Workers : Len(chan2'[p]) <= Len(chan2[p])]_vars

\* The coordinator has ended with RuntimeError in the middle of a run.
C13_Witness ==
    /\ pc[0] = "error"
    /\ exc[0] = "RuntimeError"
    /\ _current >= 1
    /\ _remaining >= 1
    /\ Cardinality(DOMAIN results) >= 1

Group(i) == all_new_comms[i]
Last(g) == g[Len(g)]

\* C14: for 1 <= njobs < size there are njobs + 1 groups; group 0 is the
\* coordinator alone; groups 1..njobs are not empty, each a run of
\* consecutive ranks, one starting where the one before ended, from rank 1
\* to rank size - 1, with sizes at most one apart; every process is in
\* exactly one group, the one it finds.
C14_Partition ==
    ~ConfigError =>
        /\ DOMAIN all_new_comms = 0..NJobs
        /\ Group(0) = <<0>>
        /\ \A i \in 1..NJobs :
              /\ Len(Group(i)) >= 1
              /\ \A k \in 1..(Len(Group(i)) - 1) : Group(i)[k + 1] = Group(i)[k] + 1
        /\ Group(1)[1] = 1
        /\ \A i \in 1..(NJobs - 1) : Group(i + 1)[1] = Last(Group(i)) + 1
        /\ Last(Group(NJobs)) = my_size - 1
        /\ \A i, j \in 1..NJobs : Len(Group(i)) - Len(Group(j)) <= 1
        /\ \A p \in Procs :
              /\ Cardinality({i \in 0..NJobs : InSeq(p, Group(i))}) = 1
              /\ InSeq(p, Group(my_new_id(p)))

\* Five workers in four groups, one of two and three of one, and the last
\* process has found its group.
C14_Witness ==
    /\ my_size = MaxSplit
    /\ NJobs = MaxSplit - 2
    /\ Len(Group(1)) = Len(Group(NJobs)) + 1
    /\ pc[MaxSplit - 1] \in {"get_next", "probe_loop"}
    /\ my_new_id(MaxSplit - 1) = NJobs

\* C15: a state with njobs = 0 and the same state with njobs = my_size - 1
\* have the same job count, the same groups with one worker each, the same
\* stop test and the same steps to take; and runs that mix the two
\* spellings end like any run, with every result and my_size - 1 subgroups
\* notified.
C15_DefaultIsAllWorkers ==
    /\ [][njobs_arg' # njobs_arg =>
            /\ NJobs' = NJobs
            /\ NJobs = my_size - 1
            /\ ConfigError' = ConfigError
            /\ all_new_comms' = all_new_comms
            /\ \A p \in Workers : all_new_comms[p] = <<p>>
            /\ \A n \in 0..MaxProcs : LoopEnds(n)' = LoopEnds(n)
            /\ (ENABLED Next)' = ENABLED Next
            /\ (ENABLED RootFinish)' = ENABLED RootFinish
            /\ \A p \in Procs :
                  /\ (ENABLED CallGenerator(p))' = ENABLED CallGenerator(p)
                  /\ (ENABLED Setup(p))' = ENABLED Setup(p)
            /\ \A p \in Workers :
                  /\ (ENABLED HandleAssignment(p))' = ENABLED HandleAssignment(p)
                  /\ (ENABLED SendTaskReq(p))' = ENABLED SendTaskReq(p)
                  /\ (ENABLED RecvReply(p))' = ENABLED RecvReply(p)
                  /\ (ENABLED RecvBcast(p))' = ENABLED RecvBcast(p)
                  /\ (ENABLED RunCallable(p))' = ENABLED RunCallable(p)
                  /\ (ENABLED YieldTask(p))' = ENABLED YieldTask(p)
                  /\ (ENABLED YieldSlot(p))' = ENABLED YieldSlot(p)
                  /\ (ENABLED Abandon(p))' = ENABLED Abandon(p)
                  /\ (ENABLED Barrier(p))' = ENABLED Barrier(p)
                  /\ (ENABLED WorkerFinish(p))' = ENABLED WorkerFinish(p)]_vars
    /\ [](njobs_arg \in {0, my_size - 1} =>
            /\ LoopStopped <=> _notified = my_size - 1
            /\ AllDone => /\ DOMAIN results = IF mode = "dynamic" THEN {} ELSE TaskIds
                          /\ \A i \in DOMAIN results : results[i] = work_fn(tasks[i + 1])
                          /\ Len(sent_ids) = L)

\* A full run under njobs = 0 on MaxProcs processes has ended, every worker
\* a subgroup of its own.
C15_Witness ==
    /\ njobs_arg = 0
    /\ my_size = MaxProcs
    /\ L = MaxTasks
    /\ AllDone
    /\ _notified = MaxProcs - 1
    /\ NumSubgroups = MaxProcs - 1

Submitting == mode \in {"task_queue", "dynamic_storage"}
Ended(p) == pc[p] \in {"finalize", "done"}
SameSubgroup(p, q) == my_new_id(p) = my_new_id(q)

\* C16: where results are submitted, a member of a subgroup has obtained
\* its task k+1 only when every member of the subgroup has called
\* send_result k times; the members obtain the same tasks in the same
\* order and, once they have ended, the same number of them; and only the
\* leader has messages to or from the coordinator.
C16_SubgroupInStep ==
    (Submitting /\ ~ConfigError) =>
        \A p, q \in Workers :
            SameSubgroup(p, q) =>
                /\ Len(obtained[p]) <= submits[q] + 1
                /\ \A k \in 1..Min(Len(obtained[p]), Len(obtained[q])) :
                      obtained[p][k] = obtained[q][k]
                /\ (Ended(p) /\ Ended(q)) => obtained[p] = obtained[q]
                /\ ~IsLeader(p) => chan1[p] = <<>> /\ chan2[p] = <<>>

\* Two members of one subgroup have gone through a full list and ended.
C16_Witness ==
    /\ mode = "task_queue"
    /\ my_size = 3
    /\ NJobs = 1
    /\ L = MaxTasks
    /\ Ended(1) /\ Ended(2)
    /\ Len(obtained[2]) = MaxTasks
    /\ submits[1] = MaxTasks /\ submits[2] = MaxTasks

\* What is true of a run on 2 processes with an empty task list that is
\* not refused: nothing but 'no_more_tasks' is sent to the worker, which
\* ends at its first get_next, and every mapping is empty.
EmptyRun ==
    /\ \A p \in Procs : pc[p] # "config_error"
    /\ sent_ids = <<>>
    /\ \A k \in 1..Len(chan2[1]) : chan2[1][k] = messages.end
    /\ obtained[1] = <<>>
    /\ pc[1] \in {"start", "created", "get_next", "recv", "finalize", "done"}
    /\ results = EmptyDict
    /\ world_bcast # <<>> => world_bcast[1] = EmptyDict
    /\ \A p \in Procs : (mode = "task_queue" /\ pc[p] = "done") => ret[p] = EmptyDict

\* C17 as claimed: on 2 processes with an empty task list, whatever njobs
\* is, the run is not refused, sends no task and ends with empty mappings.
C17_EmptyRunAnyJobCount ==
    (my_size = 2 /\ L = 0) => EmptyRun

\* C17, amended: the same for njobs below 2.
C17_EmptyRunValidJobCount ==
    (my_size = 2 /\ L = 0 /\ njobs_arg < 2) => EmptyRun

C17_Witness ==
    /\ my_size = 2
    /\ L = 0
    /\ njobs_arg = 1
    /\ mode = "task_queue"
    /\ AllDone
    /\ ret[1] = EmptyDict
    /\ _notified = 1

RootMade == pc[0] \notin {"start", "created", "config_error"}

\* C18: once the coordinator's queue is made, _current + _remaining = L,
\* 0 <= _remaining <= L, _notified is at most the number of subgroups, the
\* assignments and the keys of results are task ids below _current,
\* _remaining never grows and _notified never shrinks.
C18_CoordinatorState ==
    /\ [](RootMade =>
            /\ _current + _remaining = L
            /\ _remaining \in 0..L
            /\ _notified \in 0..NumSubgroups
            /\ \A src \in DOMAIN assignments : assignments[src] \in 0..(_current - 1)
            /\ DOMAIN results \subseteq 0..(_current - 1))
    /\ [][RootMade => _remaining' <= _remaining /\ _notified' >= _notified]_vars

C18_Witness ==
    /\ _current = MaxTasks
    /\ _remaining = 0
    /\ _notified = 2
    /\ Cardinality(DOMAIN results) = MaxTasks
    /\ Cardinality(DOMAIN assignments) = 2

\* The 'no_more_tasks' messages on their way to leader p.
EndsInFlight(p) ==
    Cardinality({k \in 1..Len(chan2[p]) : chan2[p][k].msg = messages.end.msg})
EndsOf(p) == EndsInFlight(p) + (IF Ended(p) THEN 1 ELSE 0)

RECURSIVE SumOver(_, _)
SumOver(f, S) ==
    IF S = {} THEN 0
    ELSE LET p == CHOOSE q \in S : TRUE IN f[p] + SumOver(f, S \ {p})

\* C19: a 'no_more_tasks' message exists only when every task id has been
\* assigned; a subgroup is sent at most one, exactly one once the loop has
\* stopped, and _notified counts them; it is the last message to its
\* leader, and a leader that has taken it has nothing on its way to or
\* from the coordinator.
C19_TerminateOnceAndLast ==
    ~ConfigError =>
        /\ \A p \in Leaders :
              /\ EndsOf(p) <= 1
              /\ EndsInFlight(p) = 1 =>
                    /\ chan2[p][Len(chan2[p])].msg = messages.end.msg
                    /\ chan1[p] = <<>>
              /\ EndsOf(p) = 1 => _remaining = 0 /\ SentIdSet = TaskIds
              /\ Ended(p) => chan1[p] = <<>> /\ chan2[p] = <<>>
              /\ LoopStopped => EndsOf(p) = 1
        /\ _notified = SumOver([p \in Leaders |-> EndsOf(p)], Leaders)

\* One leader has ended and the other's 'no_more_tasks' is on its way.
C19_Witness ==
    /\ my_size = 3
    /\ NJobs = 2
    /\ L = MaxTasks
    /\ Ended(2)
    /\ EndsInFlight(1) = 1
    /\ pc[0] = "stopped"

\* C20: when the coordinator's loop has stopped, no leader has a message
\* on its way to it and every result sent is in results; and a result on
\* its way comes from a source that has an assignment, so insert_result
\* never fails.
C20_NothingInFlightAtStop ==
    /\ LoopStopped =>
          /\ \A p \in Workers : chan1[p] = <<>>
          /\ SumOver([p \in Leaders |-> submits[p]], Leaders) = Cardinality(DOMAIN results)
          /\ \A p \in Leaders : outstanding[p] = (IF Submitting THEN 0 ELSE Len(obtained[p]))
    /\ \A p \in Workers : \A k \in 1..Len(chan1[p]) :
          chan1[p][k].msg = messages.result.msg => p \in DOMAIN assignments
    /\ exc[0] # "KeyError"

C20_Witness ==
    /\ pc[0] = "stopped"
    /\ mode = "dynamic_storage"
    /\ my_size = 3
    /\ NJobs = 2
    /\ L = MaxTasks
    /\ submits[1] >= 1
    /\ submits[2] >= 1
    /\ Cardinality(DOMAIN results) = MaxTasks

====
